---- MODULE Spec2Model ----
(***************************************************************************)
(* house_report.py: a directory of annotated photographs is turned into a  *)
(* markdown report (report.md) and, through pandoc, into report.html.      *)
(*                                                                         *)
(* Part 1 models Python's float arithmetic (IEEE-754 binary64, round to    *)
(* nearest even) as far as shrink_image uses it: int / int, int / float    *)
(* and int(float).  A mantissa is a natural number below 2^60 kept in      *)
(* three limbs of 20 bits, because the model checker's integers are 32     *)
(* bits wide.                                                              *)
(***************************************************************************)
EXTENDS Integers, Sequences, FiniteSets

----------------------------------------------------------------------------
(* Naturals below 2^60 as <<high, middle, low>> limbs of 20 bits.          *)

LimbBase == 2^20

BigOf(n) == <<0, n \div LimbBase, n % LimbBase>>

BigToInt(x) == (x[1] * LimbBase + x[2]) * LimbBase + x[3]

\* 2*x + b for a bit b
BigDbl(x, b) ==
    LET l == 2 * x[3] + b
        m == 2 * x[2] + (l \div LimbBase)
        h == 2 * x[1] + (m \div LimbBase)
    IN  <<h, m % LimbBase, l % LimbBase>>

\* x \div 2
BigHalf(x) ==
    <<x[1] \div 2,
      (x[2] \div 2) + (x[1] % 2) * (LimbBase \div 2),
      (x[3] \div 2) + (x[2] % 2) * (LimbBase \div 2)>>

BigLT(x, y) ==
    \/ x[1] < y[1]
    \/ x[1] = y[1] /\ x[2] < y[2]
    \/ x[1] = y[1] /\ x[2] = y[2] /\ x[3] < y[3]

\* x - y, for x >= y
BigSub(x, y) ==
    LET bl == IF x[3] < y[3] THEN 1 ELSE 0
        l  == x[3] - y[3] + bl * LimbBase
        bm == IF x[2] - bl < y[2] THEN 1 ELSE 0
        m  == x[2] - bl - y[2] + bm * LimbBase
    IN  <<x[1] - bm - y[1], m, l>>

BigInc(x) ==
    LET l == x[3] + 1
        m == x[2] + (l \div LimbBase)
        h == x[1] + (m \div LimbBase)
    IN  <<h, m % LimbBase, l % LimbBase>>

BigOdd(x) == x[3] % 2 = 1

RECURSIVE BigShr(_, _)
\* x \div 2^n
BigShr(x, n) ==
    IF n <= 0 \/ x = <<0, 0, 0>> THEN x ELSE BigShr(BigHalf(x), n - 1)

RECURSIVE BigShl(_, _)
\* x * 2^n
BigShl(x, n) == IF n <= 0 \/ x = <<0, 0, 0>> THEN x ELSE BigShl(BigDbl(x, 0), n - 1)

----------------------------------------------------------------------------
(* A positive finite float is [m |-> mantissa, e |-> exponent], of value   *)
(* m * 2^e with 2^52 <= m < 2^53 (MantBits significant bits).              *)

MantBits == 53

\* 2^(MantBits-1) and 2^MantBits
MantMin == BigShl(BigOf(1), MantBits - 1)
MantMax == BigShl(BigOf(1), MantBits)

RECURSIVE FNorm(_, _)
FNorm(m, e) == IF BigLT(m, MantMin) THEN FNorm(BigDbl(m, 0), e - 1)
               ELSE [m |-> m, e |-> e]

\* float(n) for an int n >= 1 (exact below 2^53)
FromInt(n) == FNorm(BigOf(n), 0)

RECURSIVE DivBits(_, _, _, _)
\* n more quotient bits of r / d by long division (r < 2*d): <<quotient, rest>>.
\* (A quotient never outgrows its limbs; the test keeps q evaluated.)
DivBits(r, d, q, n) ==
    IF n = 0 \/ q[1] >= LimbBase THEN <<q, r>>
    ELSE IF BigLT(r, d) THEN DivBits(BigDbl(r, 0), d, BigDbl(q, 0), n - 1)
         ELSE DivBits(BigDbl(BigSub(r, d), 0), d, BigDbl(q, 1), n - 1)

\* x / y, correctly rounded (round half to even)
FDiv(x, y) ==
    LET lt == BigLT(x.m, y.m)
        r0 == IF lt THEN BigDbl(x.m, 0) ELSE x.m
        qr == DivBits(r0, y.m, BigOf(0), MantBits)
        q  == qr[1]
        r  == qr[2]
        up == BigLT(y.m, r) \/ (r = y.m /\ BigOdd(q))
        q1 == IF up THEN BigInc(q) ELSE q
        e  == x.e - y.e - (IF lt THEN 1 ELSE 0) - (MantBits - 1)
    IN  IF q1 = MantMax THEN [m |-> MantMin, e |-> e + 1]
        ELSE [m |-> q1, e |-> e]

\* int(x): truncation toward zero
FTrunc(x) ==
    IF x.e >= 0 THEN BigToInt(BigShl(x.m, x.e))
    ELSE BigToInt(BigShr(x.m, 0 - x.e))

\* round(x): to the nearest integer, halves to the even one
FRound(x) ==
    IF x.e >= 0 THEN BigToInt(BigShl(x.m, x.e))
    ELSE LET n     == 0 - x.e
             f     == BigShr(x.m, n - 1)
             fl    == BigToInt(BigHalf(f))
             half  == BigOdd(f)
             rest  == BigShl(f, n - 1) # x.m
         IN  IF half /\ (rest \/ fl % 2 = 1) THEN fl + 1 ELSE fl

----------------------------------------------------------------------------
(* Part 2: text.  bytes and str values are sequences of byte values and of *)
(* code points; a metadata value carries its Python type.                  *)

Bytes(s) == [type |-> "bytes", val |-> s]
Str(s)   == [type |-> "str", val |-> s]
Absent   == [type |-> "absent", val |-> <<>>]

\* Length of the well-formed UTF-8 sequence at the head of s, 0 if there is none
Utf8Len(s) ==
    LET b == s[1]
        c(i, lo, hi) == Len(s) >= i /\ lo <= s[i] /\ s[i] <= hi
    IN  IF b < 128 THEN 1
        ELSE IF 194 <= b /\ b <= 223 /\ c(2, 128, 191) THEN 2
        ELSE IF b = 224 /\ c(2, 160, 191) /\ c(3, 128, 191) THEN 3
        ELSE IF b = 237 /\ c(2, 128, 159) /\ c(3, 128, 191) THEN 3
        ELSE IF 225 <= b /\ b <= 239 /\ b # 237
                /\ c(2, 128, 191) /\ c(3, 128, 191) THEN 3
        ELSE IF b = 240 /\ c(2, 144, 191) /\ c(3, 128, 191) /\ c(4, 128, 191) THEN 4
        ELSE IF 241 <= b /\ b <= 243
                /\ c(2, 128, 191) /\ c(3, 128, 191) /\ c(4, 128, 191) THEN 4
        ELSE IF b = 244 /\ c(2, 128, 143) /\ c(3, 128, 191) /\ c(4, 128, 191) THEN 4
        ELSE 0

\* The code point of a well-formed sequence of n bytes at the head of s
Utf8Point(s, n) ==
    CASE n = 1 -> s[1]
      [] n = 2 -> (s[1] - 192) * 64 + (s[2] - 128)
      [] n = 3 -> ((s[1] - 224) * 64 + (s[2] - 128)) * 64 + (s[3] - 128)
      [] n = 4 -> (((s[1] - 240) * 64 + (s[2] - 128)) * 64 + (s[3] - 128)) * 64
                  + (s[4] - 128)

RECURSIVE Utf8Decode(_)
\* bytes.decode(): [ok |-> FALSE] stands for UnicodeDecodeError
Utf8Decode(s) ==
    IF s = <<>> THEN [ok |-> TRUE, val |-> <<>>]
    ELSE LET n == Utf8Len(s)
         IN  IF n = 0 THEN [ok |-> FALSE, val |-> <<>>]
             ELSE LET rest == Utf8Decode(SubSeq(s, n + 1, Len(s)))
                  IN  [ok  |-> rest.ok,
                       val |-> IF rest.ok THEN <<Utf8Point(s, n)>> \o rest.val
                               ELSE <<>>]

\* str.replace("\0", "")
StripNulls(t) == SelectSeq(t, LAMBDA ch : ch # 0)

----------------------------------------------------------------------------
(* Part 3: images.  A decoded image is its size and the two metadata tags  *)
(* the program looks at: orientation (0x0112; 0 stands for absent) and the *)
(* user comment (tag 40092).  obj tells the object Image.open returned     *)
(* from the one shrink_image returns.                                      *)

ideal_max_dimension == 900

Max(a, b) == IF a >= b THEN a ELSE b

\* The size as the specification computes it: the quotients rounded to nearest
ScaledSizeRounded(img_w, img_h) ==
    LET scale == FDiv(FromInt(Max(img_w, img_h)), FromInt(ideal_max_dimension))
    IN  <<FRound(FDiv(FromInt(img_w), scale)), FRound(FDiv(FromInt(img_h), scale))>>

\* scaled_w, scaled_h of shrink_image
ScaledSize(img_w, img_h) ==
    LET max_dim == Max(img_w, img_h)
        scale   == FDiv(FromInt(max_dim), FromInt(ideal_max_dimension))
    IN  <<FTrunc(FDiv(FromInt(img_w), scale)), FTrunc(FDiv(FromInt(img_h), scale))>>

\* The sizes the model draws images from
MaxDim == 10

ExtraSizes == {<<2000, 1>>, <<1800, 7>>, <<1000, 999>>, <<4032, 3024>>,
               <<3024, 4032>>, <<640, 480>>}

AllSizes == ((1..MaxDim) \X (1..MaxDim)) \cup ExtraSizes

\* image.resize((scaled_w, scaled_h), Image.BICUBIC): a new image of that size
\* carrying the metadata of the old one
Resize(image) ==
    [obj  |-> "shrunk",
     size |-> ScaledSize(image.size[1], image.size[2]),
     exif |-> image.exif]

\* The library refuses a size with a zero side (ValueError)
Refused(image) == image.size[1] < 1 \/ image.size[2] < 1

\* ImageOps.exif_transpose: orientations 2..8 are applied and the tag removed,
\* 5..8 exchange width and height; otherwise a copy.
ExifTranspose(image) ==
    LET o == image.exif.orientation
    IN  IF o \in 2..8
        THEN [obj  |-> "shrunk",
              size |-> IF o \in 5..8 THEN <<image.size[2], image.size[1]>>
                       ELSE image.size,
              exif |-> [image.exif EXCEPT !.orientation = 0]]
        ELSE [image EXCEPT !.obj = "shrunk"]

\* shrink_image: the set holding the image it returns, empty when it raises
shrink_image(image) ==
    {ExifTranspose(sm_image) : sm_image \in {r \in {Resize(image)} : ~Refused(r)}}

\* exifdata.get(tag_id, b"")
ExifGet(exif) == IF exif.comment.type = "absent" THEN Bytes(<<>>) ELSE exif.comment

\* The mutant of Extract: the emptiness test inverted
ExtractInverted(exif) ==
    LET comment == ExifGet(exif)
    IN  IF comment.type = "bytes"
        THEN LET d == Utf8Decode(comment.val)
                 t == StripNulls(d.val)
             IN  IF ~d.ok THEN [out |-> "raise", comment |-> <<>>]
                 ELSE IF t # <<>> THEN [out |-> "skip", comment |-> <<>>]
                 ELSE [out |-> "yield", comment |-> t]
        ELSE [out |-> "yield", comment |-> comment.val]

\* The body of the loop of get_most_recent_photos after getexif():
\* raise (UnicodeDecodeError), skip (continue) or yield the comment.
Extract(exif) ==
    LET comment == ExifGet(exif)
    IN  IF comment.type = "bytes"
        THEN LET d == Utf8Decode(comment.val)
                 t == StripNulls(d.val)
             IN  IF ~d.ok THEN [out |-> "raise", comment |-> <<>>]
                 ELSE IF t = <<>> THEN [out |-> "skip", comment |-> <<>>]
                 ELSE [out |-> "yield", comment |-> t]
        ELSE [out |-> "yield", comment |-> comment.val]

----------------------------------------------------------------------------
(* Part 4: the report text.  A text is a sequence of lines; a line is a    *)
(* record, so that the texts of both output files compare.                 *)

Line(kind, num, text) == [kind |-> kind, num |-> num, text |-> text]

RECURSIVE EntryLinesZeroBased(_, _)
EntryLinesZeroBased(photo_list, i) ==
    IF i >= Len(photo_list) THEN <<>>
    ELSE <<Line("heading", i, photo_list[i + 1].comment),
           Line("image", photo_list[i + 1].path, photo_list[i + 1].image.size),
           Line("blank", 0, <<>>)>>
         \o EntryLinesZeroBased(photo_list, i + 1)

\* The mutant of render_report_data: headings numbered from 0
RenderZeroBased(photo_list) ==
    <<Line("title", 0, <<>>), Line("author", 0, <<>>), Line("date", 0, <<>>)>>
    \o EntryLinesZeroBased(photo_list, 0)

RECURSIVE EntryLines(_, _)
\* The loop of render_report_data from index i (0-based, as enumerate counts)
EntryLines(photo_list, i) ==
    IF i >= Len(photo_list) THEN <<>>
    ELSE <<Line("heading", i + 1, photo_list[i + 1].comment),
           Line("image", photo_list[i + 1].path, photo_list[i + 1].image.size),
           Line("blank", 0, <<>>)>>
         \o EntryLines(photo_list, i + 1)

render_report_data(photo_list) ==
    <<Line("title", 0, <<>>), Line("author", 0, <<>>), Line("date", 0, <<>>)>>
    \o EntryLines(photo_list, 0)

\* print(text, file=f): the text and a line end
PrintOut(text) == text \o <<Line("eol", 0, <<>>)>>

\* What pandoc answers when it succeeds: a document made from its input
markdown_to_html(markdown_input) == <<Line("html", 0, <<>>)>> \o markdown_input

----------------------------------------------------------------------------
(* Part 5: the run of main().                                              *)

\* The longest directory listing
MaxFiles == 3

TagValues == {Absent, Bytes(<<>>), Bytes(<<0, 0>>), Bytes(<<67, 0, 114, 0>>),
              Bytes(<<233, 0>>), Str(<<>>), Str(<<66>>)}

File(ok, size, orientation, comment) ==
    [decodable |-> ok, size |-> size,
     exif |-> [orientation |-> orientation, comment |-> comment]]

\* The files a directory may hold
FileKinds ==
    {File(TRUE, <<4, 3>>, 1, c) : c \in TagValues}
    \cup {File(TRUE, <<3, 1>>, 6, Bytes(<<195, 169>>)),
          File(TRUE, <<2000, 1>>, 0, Bytes(<<67, 0>>)),
          File(FALSE, <<1, 1>>, 0, Absent)}

NoImage == [obj |-> "none", size |-> <<1, 1>>, exif |-> File(FALSE, <<1, 1>>, 0, Absent).exif]

NoFile == [exists |-> FALSE, open |-> FALSE, content |-> <<>>]

OldFile == [exists |-> TRUE, open |-> FALSE, content |-> <<Line("old", 0, <<>>)>>]

VARIABLES
    pc,         \* where the run is
    dirOk,      \* whether photo_path is a readable directory
    prior,      \* report.md and report.html as the run found them
    listing,    \* the directory entries enumerated so far, in iterdir order
    decoded,    \* the object Image.open returned for the current entry
    image,      \* the variable image of get_most_recent_photos
    exifFrom,   \* the object getexif() was last called on
    photos,     \* the entries yielded so far: most_recent_photos
    markdown,   \* markdown_input
    htmlOut,    \* the converter's answer
    md,         \* report.md
    html,       \* report.html
    touched,    \* the files opened for writing so far
    convCalls,  \* how often pandoc was started
    err         \* the exception that ended the run, "" for none

vars == <<pc, dirOk, prior, listing, decoded, image, exifFrom, photos, markdown,
          htmlOut, md, html, touched, convCalls, err>>

selVars == <<listing, decoded, image, exifFrom, photos>>
outVars == <<markdown, htmlOut, md, html, touched, convCalls>>

Init ==
    /\ pc = "start"
    /\ dirOk \in BOOLEAN
    /\ prior \in {NoFile, OldFile}
    /\ listing = <<>>
    /\ decoded = NoImage
    /\ image = NoImage
    /\ exifFrom = "none"
    /\ photos = <<>>
    /\ markdown = <<>>
    /\ htmlOut = <<>>
    /\ md = prior
    /\ html = prior
    /\ touched = {}
    /\ convCalls = 0
    /\ err = ""

\* An uncaught exception: the run ends
Raise(e) == pc' = "failed" /\ err' = e

\* tuple(...) starts the generator: photo_dir.iterdir()
IterDir ==
    /\ pc = "start"
    /\ IF dirOk THEN pc' = "next" /\ err' = err ELSE Raise("dir")
    /\ UNCHANGED <<dirOk, prior, selVars, outVars>>

\* for photo_path in attachable_files: the next entry
NextFile ==
    /\ pc = "next"
    /\ Len(listing) < MaxFiles
    /\ \E f \in FileKinds : listing' = Append(listing, f)
    /\ pc' = "open"
    /\ UNCHANGED <<dirOk, prior, decoded, image, exifFrom, photos, outVars, err>>

\* The listing is exhausted: tuple() returns
EndOfDir ==
    /\ pc = "next"
    /\ pc' = "render"
    /\ UNCHANGED <<dirOk, prior, selVars, outVars, err>>

\* The mutant of OpenImage: a file that does not decode ends the listing
OpenImageSwallow ==
    /\ pc = "open"
    /\ LET f == listing[Len(listing)]
       IN  IF f.decodable
           THEN /\ decoded' = [obj |-> "decoded", size |-> f.size, exif |-> f.exif]
                /\ image' = decoded'
                /\ pc' = "shrink"
                /\ err' = err
           ELSE /\ pc' = "render"
                /\ err' = "decode"
                /\ UNCHANGED <<decoded, image>>
    /\ UNCHANGED <<dirOk, prior, listing, exifFrom, photos, outVars>>

\* image = Image.open(photo_path)
OpenImage ==
    /\ pc = "open"
    /\ LET f == listing[Len(listing)]
       IN  IF f.decodable
           THEN /\ decoded' = [obj |-> "decoded", size |-> f.size, exif |-> f.exif]
                /\ image' = decoded'
                /\ pc' = "shrink"
                /\ err' = err
           ELSE /\ Raise("decode")
                /\ UNCHANGED <<decoded, image>>
    /\ UNCHANGED <<dirOk, prior, listing, exifFrom, photos, outVars>>

\* The mutant of Shrink: the result is not bound to image
ShrinkUnbound ==
    /\ pc = "shrink"
    /\ \E r \in {shrink_image(image)} :
          IF r = {} THEN Raise("resize")
          ELSE pc' = "extract" /\ err' = err
    /\ UNCHANGED <<dirOk, prior, listing, decoded, image, exifFrom, photos, outVars>>

\* image = shrink_image(image)
Shrink ==
    /\ pc = "shrink"
    /\ \E r \in {shrink_image(image)} :
          IF r = {} THEN Raise("resize") /\ image' = image
          ELSE /\ \E sm_image \in r : image' = sm_image
               /\ pc' = "extract"
               /\ err' = err
    /\ UNCHANGED <<dirOk, prior, listing, decoded, exifFrom, photos, outVars>>

\* exifdata = image.getexif() to the end of the loop body
ExtractComment ==
    /\ pc = "extract"
    /\ exifFrom' = image.obj
    /\ LET x == Extract(image.exif)
       IN  CASE x.out = "raise" -> Raise("unicode") /\ photos' = photos
             [] x.out = "skip"  -> pc' = "next" /\ err' = err /\ photos' = photos
             [] x.out = "yield" ->
                    /\ photos' = Append(photos, [path    |-> Len(listing),
                                                 image   |-> image,
                                                 comment |-> x.comment])
                    /\ pc' = "next"
                    /\ err' = err
    /\ UNCHANGED <<dirOk, prior, listing, decoded, image, outVars>>

\* report_data = ReportData(...); markdown_input = render_report_data(report_data)
Render ==
    /\ pc = "render"
    /\ markdown' = render_report_data(photos)
    /\ pc' = "open_md"
    /\ UNCHANGED <<dirOk, prior, selVars, htmlOut, md, html, touched, convCalls, err>>

\* with report_filepath.open("w") as f:
OpenMd ==
    /\ pc = "open_md"
    /\ md' = [exists |-> TRUE, open |-> TRUE, content |-> <<>>]
    /\ touched' = touched \cup {"report.md"}
    /\ pc' = "print_md"
    /\ UNCHANGED <<dirOk, prior, selVars, markdown, htmlOut, html, convCalls, err>>

\* The mutant of PrintMd: the file is closed with nothing written
PrintMdNothing ==
    /\ pc = "print_md"
    /\ md' = [md EXCEPT !.open = FALSE]
    /\ pc' = "open_html"
    /\ UNCHANGED <<dirOk, prior, selVars, markdown, htmlOut, html, touched, convCalls, err>>

\* print(markdown_input, file=f), and the with block closes the file
PrintMd ==
    /\ pc = "print_md"
    /\ md' = [md EXCEPT !.content = PrintOut(markdown), !.open = FALSE]
    /\ pc' = "open_html"
    /\ UNCHANGED <<dirOk, prior, selVars, markdown, htmlOut, html, touched, convCalls, err>>

\* The mutant of OpenHtml: report.html is not opened before the converter runs
OpenHtmlLate ==
    /\ pc = "open_html"
    /\ pc' = "convert"
    /\ UNCHANGED <<dirOk, prior, selVars, markdown, htmlOut, md, html, touched,
                   convCalls, err>>

\* with report_filepath.with_suffix(".html").open("w") as f:
OpenHtml ==
    /\ pc = "open_html"
    /\ html' = [exists |-> TRUE, open |-> TRUE, content |-> <<>>]
    /\ touched' = touched \cup {"report.html"}
    /\ pc' = "convert"
    /\ UNCHANGED <<dirOk, prior, selVars, markdown, htmlOut, md, convCalls, err>>

\* markdown_to_html(markdown_input): subprocess.check_output either returns the
\* converter's output or raises (pandoc missing, or a non-zero exit); the
\* exception leaves the with block, which closes report.html.
Convert ==
    /\ pc = "convert"
    /\ convCalls' = convCalls + 1
    /\ \/ /\ htmlOut' = markdown_to_html(markdown)
          /\ pc' = "print_html"
          /\ UNCHANGED <<html, err>>
       \/ /\ Raise("converter")
          /\ html' = [html EXCEPT !.open = FALSE]
          /\ UNCHANGED htmlOut
    /\ UNCHANGED <<dirOk, prior, selVars, markdown, md, touched>>

\* print(<html>, file=f), and the with block closes the file
PrintHtml ==
    /\ pc = "print_html"
    /\ html' = [html EXCEPT !.content = PrintOut(htmlOut), !.open = FALSE]
    /\ pc' = "done"
    /\ UNCHANGED <<dirOk, prior, selVars, markdown, htmlOut, md, touched, convCalls, err>>

Next ==
    \/ IterDir \/ NextFile \/ EndOfDir \/ OpenImage \/ Shrink \/ ExtractComment
    \/ Render \/ OpenMd \/ PrintMd \/ OpenHtml \/ Convert \/ PrintHtml

Spec == Init /\ [][Next]_vars

----------------------------------------------------------------------------
(* Part 6: shrink_image alone, statement by statement, on every size and   *)
(* orientation.                                                            *)

Orientations == 0..8

ShrinkInit ==
    /\ pc = "s_start"
    /\ decoded \in {[obj |-> "decoded", size |-> s,
                     exif |-> [orientation |-> o, comment |-> Absent]] :
                    s \in AllSizes, o \in Orientations}
    /\ image = decoded
    /\ dirOk = TRUE
    /\ prior = NoFile
    /\ listing = <<>>
    /\ exifFrom = "none"
    /\ photos = <<>>
    /\ markdown = <<>>
    /\ htmlOut = <<>>
    /\ md = prior
    /\ html = prior
    /\ touched = {}
    /\ convCalls = 0
    /\ err = ""

\* img_w, img_h = image.size ... sm_image = image.resize(...)
SResize ==
    /\ pc = "s_start"
    /\ \E sm_image \in {Resize(image)} :
          IF Refused(sm_image) THEN Raise("resize") /\ image' = image
          ELSE image' = sm_image /\ pc' = "s_resized" /\ err' = err
    /\ UNCHANGED <<dirOk, prior, listing, decoded, exifFrom, photos, outVars>>

\* sm_image = ImageOps.exif_transpose(sm_image); return sm_image
STranspose ==
    /\ pc = "s_resized"
    /\ image' = ExifTranspose(image)
    /\ pc' = "s_done"
    /\ UNCHANGED <<dirOk, prior, listing, decoded, exifFrom, photos, outVars, err>>

ShrinkNext == SResize \/ STranspose

SpecShrink == ShrinkInit /\ [][ShrinkNext]_vars

----------------------------------------------------------------------------
(* Part 7: the claims.                                                     *)

\* The entries of the listing the selector has dealt with completely
Processed ==
    IF pc \in {"open", "shrink", "extract"}
       \/ (pc = "failed" /\ err \in {"decode", "resize", "unicode"})
    THEN Len(listing) - 1
    ELSE Len(listing)

\* The markup exists
Rendered == pc \in {"open_md", "print_md", "open_html", "convert", "print_html", "done"}
            \/ (pc = "failed" /\ err = "converter")

\* The text of a file's user comment: decoded and null-stripped when bytes
CaptionOf(f) ==
    LET c == ExifGet(f.exif)
    IN  IF c.type = "bytes" THEN StripNulls(Utf8Decode(c.val).val) ELSE c.val

Undecodable(f) ==
    f.exif.comment.type = "bytes" /\ ~Utf8Decode(f.exif.comment.val).ok

RECURSIVE Included(_, _)
\* The entries the selector yields from listing[i..], as <<position, caption>>
Included(files, i) ==
    IF i > Len(files) THEN <<>>
    ELSE LET x == Extract(files[i].exif)
         IN  (IF x.out = "yield" THEN <<<<i, x.comment>>>> ELSE <<>>)
             \o Included(files, i + 1)

Headings(text) == SelectSeq(text, LAMBDA l : l.kind = "heading")

ImageLines(text) == SelectSeq(text, LAMBDA l : l.kind = "image")

PathsOf(entries) == {entries[k].path : k \in 1..Len(entries)}

\* C1: every entry the selector yields, and so every heading of the markup,
\* has a non-empty caption, whatever the value of the comment tag.
C1_CaptionsNonEmpty ==
    /\ \A k \in 1..Len(photos) : photos[k].comment # <<>>
    /\ \A k \in 1..Len(Headings(markdown)) : Headings(markdown)[k].text # <<>>

\* C2: the headings of the markup are numbered 1..n, n the number of included
\* photos, and the k-th heading and image are those of the k-th included
\* photo in the order of the directory listing.
C2_NumberedInOrder ==
    Rendered =>
        LET hs  == Headings(markdown)
            is  == ImageLines(markdown)
            inc == Included(listing, 1)
        IN  /\ Len(hs) = Len(inc)
            /\ Len(is) = Len(inc)
            /\ \A k \in 1..Len(inc) :
                  /\ hs[k].num = k
                  /\ hs[k].text = inc[k][2]
                  /\ is[k].num = inc[k][1]

C2_Witness ==
    /\ Rendered
    /\ Len(listing) = 3
    /\ PathsOf(photos) = {1, 3}
    /\ photos[1].comment # photos[2].comment

\* C3: when the directory cannot be listed or a file does not decode, the run
\* has ended with that error and neither output file was created, opened
\* for writing or changed.
C3_NoOutputOnInputError ==
    err \in {"dir", "decode"} =>
        /\ pc = "failed"
        /\ touched = {}
        /\ md = prior
        /\ html = prior

C3_Witness ==
    /\ err = "decode"
    /\ pc = "failed"
    /\ Len(listing) = 3
    /\ Len(photos) = 2

\* C4: a file whose comment tag is absent or does not decode as text is
\* skipped, and the run never ends because of the comment.
C4_CommentNeverRaises ==
    /\ err # "unicode"
    /\ \A i \in 1..Len(listing) :
          (listing[i].exif.comment.type = "absent" \/ Undecodable(listing[i]))
              => i \notin PathsOf(photos)

\* C5: at most one entry per file, in listing order; a file dealt with and
\* not yielded has an empty caption; a file with a non-empty caption is
\* yielded exactly once, with that caption when the tag holds bytes.
C5_SkipsOnlyEmpty ==
    /\ Len(photos) <= Len(listing)
    /\ \A j, k \in 1..Len(photos) : j < k => photos[j].path < photos[k].path
    /\ PathsOf(photos) \subseteq 1..Len(listing)
    /\ \A i \in 1..Processed :
          /\ i \notin PathsOf(photos) => CaptionOf(listing[i]) = <<>>
          /\ StripNulls(CaptionOf(listing[i])) # <<>> =>
                \E k \in 1..Len(photos) :
                    /\ photos[k].path = i
                    /\ listing[i].exif.comment.type = "bytes"
                         => photos[k].comment = CaptionOf(listing[i])

C5_Witness ==
    /\ pc = "render"
    /\ Len(listing) = 3
    /\ PathsOf(photos) = {1, 3}
    /\ listing[2].exif.comment = Bytes(<<0, 0>>)
    /\ listing[3].exif.comment = Bytes(<<67, 0, 114, 0>>)

\* round(100 * a / b), halves upward, on the exact quotient
Hundredths(a, b) == (200 * a + b) \div (2 * b)

\* C6: the resize is to round(origW / scale), round(origH / scale), to the
\* nearest integer.
C6_ResizeRounds ==
    pc = "s_resized" =>
        image.size = ScaledSizeRounded(decoded.size[1], decoded.size[2])

\* C7: the size shrink_image returns has its longer side 900, both sides
\* positive, and the aspect ratio of the input to two decimals.
C7_LongSideAndRatio ==
    pc = "s_done" =>
        /\ image.size[1] > 0
        /\ image.size[2] > 0
        /\ Max(image.size[1], image.size[2]) = ideal_max_dimension
        /\ Hundredths(image.size[1], image.size[2])
             = Hundredths(decoded.size[1], decoded.size[2])

\* C8: report.md is written in full and closed before the converter starts;
\* the converter runs at most once, and when it fails the run has ended
\* with report.md holding the whole markup.
C8_MarkdownBeforeConverter ==
    /\ convCalls <= 1
    /\ (pc = "convert" \/ convCalls = 1) =>
          /\ md.exists
          /\ ~md.open
          /\ md.content = PrintOut(markdown)
          /\ markdown = render_report_data(photos)
    /\ err = "converter" => pc = "failed" /\ convCalls = 1

C8_Witness ==
    /\ err = "converter"
    /\ Len(photos) = 2
    /\ md.content = PrintOut(render_report_data(photos))

\* C9 as stated: the comment is read from the object Image.open returned,
\* never from the one shrink_image returned.
C9_ReadFromDecoded == exifFrom # "shrunk"

\* C9 as amended: the comment is read from the image shrink_image returned
\* (image is rebound before getexif), never from the object Image.open
\* returned.
C9_ReadFromShrunk ==
    /\ exifFrom \in {"none", "shrunk"}
    /\ pc = "extract" => image.obj = "shrunk" /\ decoded.obj = "decoded"

C9_Witness ==
    /\ exifFrom = "shrunk"
    /\ decoded.exif.orientation = 6
    /\ Len(photos) = 1
    /\ photos[1].image.size = <<300, 899>>

\* C10: report.html is opened, and so emptied, before the converter starts;
\* when the converter fails the run ends with report.html existing and
\* empty, whatever it held before.
C10_HtmlEmptiedBeforeConverter ==
    /\ pc = "convert" =>
          /\ html = [exists |-> TRUE, open |-> TRUE, content |-> <<>>]
          /\ "report.html" \in touched
    /\ err = "converter" =>
          html = [exists |-> TRUE, open |-> FALSE, content |-> <<>>]

C10_Witness ==
    /\ err = "converter"
    /\ prior = OldFile
    /\ html.content = <<>>

====
